---- MODULE Spec2Model ----
(***************************************************************************)
(* Model of tools/ct_rom_utils.py: the SNESRom image object (copier-header *)
(* detection, LoROM/HiROM inference, internal header extraction, checksum, *)
(* range read, hex dump, binary diff) and the info command.                *)
(*                                                                         *)
(* A Python bytes object is modelled as a record [len, fill, patch]: the   *)
(* byte at index i (0-based) is patch[i] when i is in DOMAIN patch and     *)
(* fill otherwise.  This lets images of the real sizes (32 KiB, 64 KiB)    *)
(* be states of the model.  Python str values are sequences of code points.*)
(***************************************************************************)
EXTENDS Integers, Sequences, FiniteSets, TLC

VARIABLES pc, data, has_header, rom_data, op, args, result, raised, touched

vars == <<pc, data, has_header, rom_data, op, args, result, raised, touched>>

\* ---------------------------------------------------------------- constants
LOROM_HEADER_OFFSET == 32688
HIROM_HEADER_OFFSET == 65456

\* ------------------------------------------------------------------- bounds
\* every byte string of length 0..MaxSmallLen over ByteVals is an input file
MaxSmallLen == 2
\* offsets 0..MaxOffset and lengths 0..MaxLength are inputs of the range reads
MaxOffset == 2
MaxLength == 2
\* image sizes within Slack of each mapping-mode threshold are inputs
Slack == 1

\* --------------------------------------------------------- integer helpers
Min(a, b) == IF a < b THEN a ELSE b
Max(a, b) == IF a > b THEN a ELSE b

RECURSIVE BitXor(_, _)
\* Python's a ^ b on non-negative ints
BitXor(a, b) ==
    IF a = 0 THEN b
    ELSE IF b = 0 THEN a
    ELSE (((a % 2) + (b % 2)) % 2) + 2 * BitXor(a \div 2, b \div 2)

RECURSIVE BitAnd(_, _)
\* Python's a & b on non-negative ints
BitAnd(a, b) ==
    IF a = 0 \/ b = 0 THEN 0
    ELSE ((a % 2) * (b % 2)) + 2 * BitAnd(a \div 2, b \div 2)

\* ------------------------------------------------------------ bytes objects
EmptyBytes == [len |-> 0, fill |-> 0, patch |-> <<>>]

\* b[i] for 0 <= i < len(b)
Byte(b, i) == IF i \in DOMAIN b.patch THEN b.patch[i] ELSE b.fill

\* the slice bounds Python computes for b[start:stop] (PySlice_AdjustIndices)
SliceIndex(n, k) == IF k < 0 THEN Max(k + n, 0) ELSE Min(k, n)

\* b[start:stop]: permissive, clamped to the buffer, never raises
Slice(b, start, stop) ==
    LET lo == SliceIndex(b.len, start)
        hi == SliceIndex(b.len, stop)
        keep == {j \in DOMAIN b.patch : j >= lo /\ j < hi}
    IN  [len   |-> Max(hi - lo, 0),
         fill  |-> b.fill,
         patch |-> [i \in {j - lo : j \in keep} |-> b.patch[i + lo]]]

\* the subscript b[i], i >= 0: IndexError when i is not below len(b)
IndexOk(b, i) == i < b.len

\* struct.unpack_from("<H", b, offset): struct.error unless two bytes fit
UnpackFits(b, offset) == offset + 2 <= b.len

\* struct.unpack_from("<H", b, offset)[0]: little-endian 16-bit word
UnpackH(b, offset) == Byte(b, offset) + 256 * Byte(b, offset + 1)

\* ------------------------------------------------------------- SNESRom
\* the object: self.data, self.has_header, self.rom_data
\* _detect_header with the remainder taken modulo 512
DetectHeaderMut(d) == (d.len % 512) = 0
\* SNESRom._detect_header
DetectHeader(d) == (d.len % 1024) = 512

\* SNESRom.__init__ after read_bytes() returned d
NewRom(d) ==
    LET h == DetectHeader(d)
    IN  [data |-> d, has_header |-> h,
         rom_data |-> IF h THEN Slice(d, 512, d.len) ELSE d]

\* SNESRom.size
Size(self) == self.rom_data.len

\* the probe guard without the + 0x30
ProbeGuardMut(self, offset) == Size(self) > offset
\* the guard before each probe: self.size > OFFSET + 0x30
ProbeGuard(self, offset) == Size(self) > offset + 48

\* one probe of mapping_mode at a header base: the two unpack_from calls and
\* the XOR test; [raised, touched, pass]
Probe(self, offset) ==
    IF ~ProbeGuard(self, offset)
    THEN [raised |-> "none", touched |-> {}, pass |-> FALSE]
    ELSE IF ~UnpackFits(self.rom_data, offset + 28)
    THEN [raised |-> "struct.error", touched |-> {offset + 28, offset + 29},
          pass |-> FALSE]
    ELSE IF ~UnpackFits(self.rom_data, offset + 30)
    THEN [raised |-> "struct.error", touched |-> (offset + 28)..(offset + 31),
          pass |-> FALSE]
    ELSE [raised |-> "none", touched |-> (offset + 28)..(offset + 31),
          pass |-> BitXor(UnpackH(self.rom_data, offset + 28),
                          UnpackH(self.rom_data, offset + 30)) = 65535]

\* mapping_mode with the HiROM probe first
MappingModeRunMut(self) ==
    LET lo == Probe(self, LOROM_HEADER_OFFSET)
        hi == Probe(self, HIROM_HEADER_OFFSET)
    IN  IF hi.raised # "none"
        THEN [raised |-> hi.raised, touched |-> hi.touched, value |-> "raised"]
        ELSE IF hi.pass
        THEN [raised |-> "none", touched |-> hi.touched, value |-> "HiROM"]
        ELSE IF lo.raised # "none"
        THEN [raised |-> lo.raised, touched |-> hi.touched \cup lo.touched,
              value |-> "raised"]
        ELSE [raised |-> "none", touched |-> hi.touched \cup lo.touched,
              value |-> IF lo.pass THEN "LoROM" ELSE "Unknown"]
\* SNESRom.mapping_mode: LoROM probe first, then HiROM, else Unknown
MappingModeRun(self) ==
    LET lo == Probe(self, LOROM_HEADER_OFFSET)
        hi == Probe(self, HIROM_HEADER_OFFSET)
    IN  IF lo.raised # "none"
        THEN [raised |-> lo.raised, touched |-> lo.touched, value |-> "raised"]
        ELSE IF lo.pass
        THEN [raised |-> "none", touched |-> lo.touched, value |-> "LoROM"]
        ELSE IF hi.raised # "none"
        THEN [raised |-> hi.raised, touched |-> lo.touched \cup hi.touched,
              value |-> "raised"]
        ELSE [raised |-> "none", touched |-> lo.touched \cup hi.touched,
              value |-> IF hi.pass THEN "HiROM" ELSE "Unknown"]

\* get_header_offset ignoring the mapping mode
GetHeaderOffsetMut(self) == LOROM_HEADER_OFFSET
\* SNESRom.get_header_offset: HiROM base for HiROM, LoROM base otherwise
GetHeaderOffset(self) ==
    IF MappingModeRun(self).value = "HiROM"
    THEN HIROM_HEADER_OFFSET
    ELSE LOROM_HEADER_OFFSET

\* bytes.decode("ascii", errors="replace"): U+FFFD for every byte >= 0x80
DecodeAscii(b) == [k \in 1..b.len |->
                     IF Byte(b, k - 1) < 128 THEN Byte(b, k - 1) ELSE 65533]

\* str.isspace() on the code points DecodeAscii can produce
IsSpace(c) == c \in 9..13 \/ c \in 28..32

RECURSIVE LStrip(_)
LStrip(s) == IF s # <<>> /\ IsSpace(Head(s)) THEN LStrip(Tail(s)) ELSE s

RECURSIVE RStrip(_)
RStrip(s) == IF s # <<>> /\ IsSpace(s[Len(s)])
             THEN RStrip(SubSeq(s, 1, Len(s) - 1)) ELSE s

\* str.strip()
Strip(s) == RStrip(LStrip(s))

\* the header dict once every read succeeded (2^b stands for 1 << b)
HeaderFields(self, offset) ==
    LET r == self.rom_data
    IN  [title      |-> Strip(DecodeAscii(Slice(r, offset + 16, offset + 16 + 21))),
         map_mode   |-> Byte(r, offset + 21),
         rom_type   |-> Byte(r, offset + 22),
         rom_size   |-> 2 ^ Byte(r, offset + 23),
         sram_size  |-> IF Byte(r, offset + 24) # 0
                        THEN 2 ^ Byte(r, offset + 24) ELSE 0,
         country    |-> Byte(r, offset + 25),
         developer  |-> Byte(r, offset + 26),
         version    |-> Byte(r, offset + 27),
         checksum_complement |-> UnpackH(r, offset + 28),
         checksum   |-> UnpackH(r, offset + 30)]

\* SNESRom.read_internal_header: the reads in program order; the first
\* subscript past the end raises IndexError, the first unpack_from that
\* does not fit raises struct.error.  [raised, touched, value]
ReadInternalHeader(self) ==
    LET mm     == MappingModeRun(self)
        offset == GetHeaderOffset(self)
        r      == self.rom_data
        bad    == {k \in 21..27 : ~IndexOk(r, offset + k)}
        first  == CHOOSE k \in bad : \A j \in bad : k <= j
        idx    == (offset + 21)..(offset + 27)
    IN  IF mm.raised # "none"
        THEN [raised |-> mm.raised, touched |-> mm.touched, value |-> <<>>]
        ELSE IF bad # {}
        THEN [raised |-> "IndexError",
              touched |-> mm.touched \cup ((offset + 21)..(offset + first)),
              value |-> <<>>]
        ELSE IF ~UnpackFits(r, offset + 28)
        THEN [raised |-> "struct.error",
              touched |-> mm.touched \cup idx \cup {offset + 28, offset + 29},
              value |-> <<>>]
        ELSE IF ~UnpackFits(r, offset + 30)
        THEN [raised |-> "struct.error",
              touched |-> mm.touched \cup idx \cup ((offset + 28)..(offset + 31)),
              value |-> <<>>]
        ELSE [raised |-> "none",
              touched |-> mm.touched \cup idx \cup ((offset + 28)..(offset + 31)),
              value |-> HeaderFields(self, offset)]

\* the "Valid:" line of cmd_info
HeaderValid(header) ==
    BitXor(header.checksum, header.checksum_complement) = 65535

\* the country label of cmd_info
CountryName(c) == IF c = 1 THEN "US/Canada" ELSE IF c = 0 THEN "Japan" ELSE "Other"

\* cmd_info on the image: the values it prints (the two digests are left
\* out: they are computed after the header is read, cannot raise, and feed
\* nothing else); nothing is printed when read_internal_header raises
CmdInfoRun(self) ==
    LET h == ReadInternalHeader(self)
    IN  IF h.raised # "none"
        THEN [raised |-> h.raised, touched |-> h.touched, value |-> <<>>]
        ELSE [raised |-> "none", touched |-> h.touched,
              value |-> [file_size    |-> self.data.len,
                         has_header   |-> self.has_header,
                         size         |-> Size(self),
                         mapping_mode |-> MappingModeRun(self).value,
                         header       |-> h.value,
                         country_name |-> CountryName(h.value.country),
                         valid        |-> HeaderValid(h.value)]]

RECURSIVE SumOver(_, _, _, _)
\* sum(b[lo:hi]) with at = DOMAIN b.patch; the fold is split at the midpoint
\* so its depth stays logarithmic in the image size
SumOver(b, at, lo, hi) ==
    IF hi <= lo THEN 0
    ELSE IF hi = lo + 1 THEN (IF lo \in at THEN b.patch[lo] ELSE b.fill)
    ELSE LET mid == (lo + hi) \div 2
         IN  SumOver(b, at, lo, mid) + SumOver(b, at, mid, hi)

\* sum(b)
Sum(b) == SumOver(b, DOMAIN b.patch, 0, b.len)

\* compute_checksum over the file bytes, copier header included
ComputeChecksumMut(self) == BitAnd(Sum(self.data), 65535)
\* SNESRom.compute_checksum: sum(self.rom_data) & 0xFFFF
ComputeChecksum(self) == BitAnd(Sum(self.rom_data), 65535)

\* read_bytes with length taken as the end index
ReadBytesMut(self, offset, length) == Slice(self.rom_data, offset, length)
\* SNESRom.read_bytes: self.rom_data[offset:offset + length]
ReadBytes(self, offset, length) == Slice(self.rom_data, offset, offset + length)

\* ------------------------------------------------------------ str formatting
\* one uppercase hex digit as a code point
HexDigitChar(d) == IF d < 10 THEN 48 + d ELSE 55 + d

RECURSIVE HexDigits(_)
\* format(n, "X") for n >= 0
HexDigits(n) ==
    IF n < 16 THEN <<HexDigitChar(n)>>
    ELSE HexDigits(n \div 16) \o <<HexDigitChar(n % 16)>>

\* format(n, "0wX"): zero-padded to at least w digits
FormatHex(n, w) == [k \in 1..(w - Len(HexDigits(n))) |-> 48] \o HexDigits(n)

RECURSIVE DecDigits(_)
\* str(n) for n >= 0
DecDigits(n) ==
    IF n < 10 THEN <<48 + n>>
    ELSE DecDigits(n \div 10) \o <<48 + (n % 10)>>

\* format(s, "<ws"): left-aligned, space-padded to at least w characters
LJust(s, w) == s \o [k \in 1..(w - Len(s)) |-> 32]

RECURSIVE Join(_, _)
\* sep.join(parts)
Join(sep, parts) ==
    IF parts = <<>> THEN <<>>
    ELSE IF Len(parts) = 1 THEN parts[1]
    ELSE parts[1] \o sep \o Join(sep, Tail(parts))

\* the printable test with 127 included
IsPrintableMut(b) == 32 <= b /\ b <= 127
\* the test of the ASCII column: 32 <= b < 127
IsPrintable(b) == 32 <= b /\ b < 127

\* len(range(0, n, 16))
RowCount(n) == IF n <= 0 THEN 0 ELSE ((n - 1) \div 16) + 1

\* one line of hexdump: chunk = data[i:i + 16]
HexdumpLine(d, offset, i) ==
    LET chunk      == Slice(d, i, i + 16)
        hex_part   == Join(<<32>>, [k \in 1..chunk.len |->
                                      FormatHex(Byte(chunk, k - 1), 2)])
        ascii_part == [k \in 1..chunk.len |->
                         IF IsPrintable(Byte(chunk, k - 1))
                         THEN Byte(chunk, k - 1) ELSE 46]
    IN  <<32, 32>> \o FormatHex(offset + i, 6) \o <<58, 32>>
        \o LJust(hex_part, 48) \o <<32>> \o ascii_part

\* SNESRom.hexdump: "\n".join of one line per 16 bytes read
Hexdump(self, offset, length) ==
    LET d == ReadBytes(self, offset, length)
    IN  Join(<<10>>, [k \in 1..RowCount(d.len) |->
                        HexdumpLine(d, offset, 16 * (k - 1))])

\* ------------------------------------------------------------------ compare
\* the mismatch dict with the two bytes exchanged
ByteEntryMut(self, other, i) ==
    [offset   |-> i,
     original |-> Byte(other.rom_data, i),
     modified |-> Byte(self.rom_data, i)]
\* the dict appended for a mismatching index
ByteEntry(self, other, i) ==
    [offset   |-> i,
     original |-> Byte(self.rom_data, i),
     modified |-> Byte(other.rom_data, i)]

RECURSIVE ScanRange(_, _, _, _)
\* the entries the loop appends for i in range(lo, hi), in order; the loop
\* is split at the midpoint so its depth stays logarithmic
ScanRange(self, other, lo, hi) ==
    IF hi <= lo THEN <<>>
    ELSE IF hi = lo + 1
    THEN IF Byte(self.rom_data, lo) # Byte(other.rom_data, lo)
         THEN <<ByteEntry(self, other, lo)>> ELSE <<>>
    ELSE LET mid == (lo + hi) \div 2
         IN  ScanRange(self, other, lo, mid) \o ScanRange(self, other, mid, hi)

\* "Size difference: ", " vs ", " bytes"
NotePrefix == <<83, 105, 122, 101, 32, 100, 105, 102, 102, 101, 114, 101,
                110, 99, 101, 58, 32>>
NoteMiddle == <<32, 118, 115, 32>>
NoteSuffix == <<32, 98, 121, 116, 101, 115>>

\* the size dict placed at the longer length
SizeEntryMut(self, other) ==
    [offset |-> Max(self.rom_data.len, other.rom_data.len),
     note   |-> NotePrefix \o DecDigits(self.rom_data.len) \o NoteMiddle
                \o DecDigits(other.rom_data.len) \o NoteSuffix]
\* the dict appended when the sizes differ
SizeEntry(self, other) ==
    [offset |-> Min(self.rom_data.len, other.rom_data.len),
     note   |-> NotePrefix \o DecDigits(self.rom_data.len) \o NoteMiddle
                \o DecDigits(other.rom_data.len) \o NoteSuffix]

\* SNESRom.compare
Compare(self, other) ==
    LET min_len == Min(self.rom_data.len, other.rom_data.len)
    IN  ScanRange(self, other, 0, min_len)
        \o (IF self.rom_data.len # other.rom_data.len
            THEN <<SizeEntry(self, other)>> ELSE <<>>)

\* -------------------------------------------------------------- input files
\* byte values of the exhaustively enumerated small files
ByteVals == {0, 32, 127, 255}

NoPatch == [i \in {} |-> 0]

\* a file's content: the patch restricted to the indices the file has
MkBytes(len, fill, patch) ==
    [len |-> len, fill |-> fill,
     patch |-> [i \in {j \in DOMAIN patch : j < len} |-> patch[i]]]

FromSeq(s) == [len |-> Len(s), fill |-> 0,
               patch |-> [i \in 0..(Len(s) - 1) |-> s[i + 1]]]

SmallFiles == {FromSeq(s) : s \in UNION {[1..k -> ByteVals] : k \in 0..MaxSmallLen}}

\* files of one and of several hexdump rows: uniform, with a non-ASCII and a
\* printable byte in the first row, or with a differing byte in the third
MidFiles ==
    {MkBytes(n, 65, p) : n \in {8, 10, 16, 17, 33},
                         p \in {NoPatch, (3 :> 200) @@ (7 :> 126), 32 :> 200}}

\* files a copier header is detected in (512 and 1536 bytes)
HeaderedFiles ==
    {MkBytes(n, f, (0 :> 170) @@ (511 :> 85) @@ (512 :> 7) @@ (1535 :> 9)) :
        n \in {512, 1536}, f \in {1, 255}}

\* a little-endian 16-bit word stored at off
WordPatch(off, w) == (off :> (w % 256)) @@ ((off + 1) :> (w \div 256))

\* the two words at base + 0x1C and base + 0x1E: absent (fill), a
\* complementary pair, or a pair that is one bit off
WordPairs == {<<>>, <<4660, 60875>>, <<4660, 60874>>}

\* an internal header at base: title bytes, size bytes, country, words
HeaderPatch(base, pair) ==
    (base + 16 :> 32) @@ (base + 17 :> 67) @@ (base + 18 :> 200)
    @@ (base + 19 :> 84) @@ (base + 20 :> 32)
    @@ (base + 23 :> 12) @@ (base + 24 :> 5) @@ (base + 25 :> 1)
    @@ (IF pair = <<>> THEN NoPatch
        ELSE WordPatch(base + 28, pair[1]) @@ WordPatch(base + 30, pair[2]))

\* image sizes at and around the two probe thresholds
ImageSizes ==
    {LOROM_HEADER_OFFSET + 48 + d : d \in (0 - Slack)..Slack}
    \cup {HIROM_HEADER_OFFSET + 48 + d : d \in (0 - Slack)..Slack}
    \cup {LOROM_HEADER_OFFSET + 30, HIROM_HEADER_OFFSET + 30, 32768, 65536}

\* images with headers at the LoROM and HiROM bases, bare (shift 0) or
\* behind a 512-byte copier header (shift 512)
ImageFiles ==
    {MkBytes(n + shift, 0,
             HeaderPatch(shift + LOROM_HEADER_OFFSET, lo)
             @@ HeaderPatch(shift + HIROM_HEADER_OFFSET, hi)
             @@ (0 :> 170)) :
        n \in ImageSizes, shift \in {0}, lo \in WordPairs, hi \in WordPairs}
    \cup
    {MkBytes(n + shift, 0,
             HeaderPatch(shift + LOROM_HEADER_OFFSET, lo)
             @@ HeaderPatch(shift + HIROM_HEADER_OFFSET, hi)
             @@ (0 :> 170)) :
        n \in {32768, 65536}, shift \in {512}, lo \in WordPairs, hi \in WordPairs}

\* 65537 bytes, each equal to 1
OnesFile == MkBytes(65537, 1, NoPatch)

Files == SmallFiles \cup MidFiles \cup HeaderedFiles \cup ImageFiles \cup {OnesFile}

\* the second file of a comparison
OtherFiles == {d \in Files : d.len <= 1536}

Offsets == (0..MaxOffset) \cup {16, LOROM_HEADER_OFFSET + 16}
Lengths == (0..MaxLength) \cup {16, 17, 40}

\* ------------------------------------------------------------ state machine
Self == [data |-> data, has_header |-> has_header, rom_data |-> rom_data]

Init ==
    /\ pc = "idle"
    /\ data = EmptyBytes
    /\ has_header = FALSE
    /\ rom_data = EmptyBytes
    /\ op = "none"
    /\ args = <<>>
    /\ result = <<>>
    /\ raised = "none"
    /\ touched = {}

\* rom = SNESRom(path), the file holding d
Construct(d) ==
    /\ pc = "idle"
    /\ pc' = "loaded"
    /\ data' = NewRom(d).data
    /\ has_header' = NewRom(d).has_header
    /\ rom_data' = NewRom(d).rom_data
    /\ op' = "__init__"
    /\ UNCHANGED <<args, result, raised, touched>>

\* a method call on the loaded image; the image itself never changes
Call(name, a, run) ==
    /\ pc = "loaded"
    /\ pc' = "done"
    /\ op' = name
    /\ args' = a
    /\ result' = run.value
    /\ raised' = run.raised
    /\ touched' = run.touched
    /\ UNCHANGED <<data, has_header, rom_data>>

Returned(v) == [raised |-> "none", touched |-> {}, value |-> v]

MappingMode == Call("mapping_mode", <<>>, MappingModeRun(Self))

DoGetHeaderOffset ==
    Call("get_header_offset", <<>>,
         [raised |-> MappingModeRun(Self).raised,
          touched |-> MappingModeRun(Self).touched,
          value |-> GetHeaderOffset(Self)])

DoReadInternalHeader == Call("read_internal_header", <<>>, ReadInternalHeader(Self))

DoComputeChecksum == Call("compute_checksum", <<>>, Returned(ComputeChecksum(Self)))

DoReadBytes ==
    \E offset \in Offsets, length \in Lengths :
        Call("read_bytes", <<offset, length>>,
             Returned(ReadBytes(Self, offset, length)))

DoHexdump ==
    \E offset \in Offsets, length \in Lengths :
        Call("hexdump", <<offset, length>>,
             Returned(Hexdump(Self, offset, length)))

DoCompare ==
    \E d \in OtherFiles :
        Call("compare", <<NewRom(d).rom_data>>, Returned(Compare(Self, NewRom(d))))

\* the info command: builds the image and prints its header
CmdInfo ==
    \E d \in Files :
        /\ pc = "idle"
        /\ pc' = "done"
        /\ data' = NewRom(d).data
        /\ has_header' = NewRom(d).has_header
        /\ rom_data' = NewRom(d).rom_data
        /\ op' = "info"
        /\ args' = <<>>
        /\ result' = CmdInfoRun(NewRom(d)).value
        /\ raised' = CmdInfoRun(NewRom(d)).raised
        /\ touched' = CmdInfoRun(NewRom(d)).touched

\* the command ends and the image is discarded
Exit ==
    /\ pc = "done"
    /\ pc' = "idle"
    /\ data' = EmptyBytes
    /\ has_header' = FALSE
    /\ rom_data' = EmptyBytes
    /\ op' = "none"
    /\ args' = <<>>
    /\ result' = <<>>
    /\ raised' = "none"
    /\ touched' = {}

Next ==
    \/ \E d \in Files : Construct(d)
    \/ MappingMode
    \/ DoGetHeaderOffset
    \/ DoReadInternalHeader
    \/ DoComputeChecksum
    \/ DoReadBytes
    \/ DoHexdump
    \/ DoCompare
    \/ CmdInfo
    \/ Exit

Spec == Init /\ [][Next]_vars

\* ===================================================================== claims
\* helpers of the statements below
RomLen == rom_data.len

\* the little-endian 16-bit word of the image at index i
WordAt(i) == Byte(rom_data, i) + 256 * Byte(rom_data, i + 1)

\* the checksum test of the specification at a header base
TestPasses(base) ==
    /\ RomLen > base + 48
    /\ BitXor(WordAt(base + 28), WordAt(base + 30)) = 65535

ExpectedMode ==
    IF TestPasses(LOROM_HEADER_OFFSET) THEN "LoROM"
    ELSE IF TestPasses(HIROM_HEADER_OFFSET) THEN "HiROM"
    ELSE "Unknown"

\* C1: mapping_mode returns LoROM exactly when the LoROM test passes,
\* otherwise HiROM exactly when the HiROM test passes, otherwise Unknown;
\* an image passing both tests is LoROM.
C1_MappingMode ==
    op = "mapping_mode" =>
        /\ raised = "none"
        /\ result = ExpectedMode
        /\ (TestPasses(LOROM_HEADER_OFFSET) /\ TestPasses(HIROM_HEADER_OFFSET)
              => result = "LoROM")

\* an image passing both tests was classified
C1_Witness ==
    /\ op = "mapping_mode"
    /\ TestPasses(LOROM_HEADER_OFFSET)
    /\ TestPasses(HIROM_HEADER_OFFSET)
    /\ result = "LoROM"

\* C2: construction sets has_header iff len(B) mod 1024 = 512, and rom_data
\* to B without its first 512 bytes when headered and to B otherwise; its
\* length is len(B) - 512 or len(B) and never negative.
C2_Construction ==
    pc # "idle" =>
        LET skip == IF data.len % 1024 = 512 THEN 512 ELSE 0
            at   == DOMAIN data.patch
            rat  == DOMAIN rom_data.patch
        IN  /\ has_header = (data.len % 1024 = 512)
            /\ rom_data.len = data.len - skip
            /\ rom_data.len >= 0
            /\ pc = "loaded" =>
                 \A i \in 0..(rom_data.len - 1) :
                     (IF i \in rat THEN rom_data.patch[i] ELSE rom_data.fill)
                     = (IF i + skip \in at THEN data.patch[i + skip] ELSE data.fill)

\* a headered file was loaded and its first ROM byte is not its first file byte
C2_Witness ==
    /\ pc = "loaded"
    /\ has_header
    /\ rom_data.len = data.len - 512
    /\ rom_data.len > 0
    /\ Byte(rom_data, 0) # Byte(data, 0)

\* C3: header extraction (read_internal_header, info) on an image too short
\* to hold the header region at the chosen base raises nothing and reads no
\* index at or beyond len(rom_bytes).
C3_ShortHeaderNoError ==
    (op \in {"read_internal_header", "info"}
       /\ RomLen < GetHeaderOffset(Self) + 32)
    => /\ raised = "none"
       /\ \A i \in touched : i < RomLen

\* C4: mapping_mode never reads an index at or beyond len(rom_bytes); each
\* probe is skipped when len(rom_bytes) <= base + 0x30, and an image of at
\* most 0x7FB0 + 0x30 bytes is Unknown.
C4_MappingModeInBounds ==
    op = "mapping_mode" =>
        /\ raised = "none"
        /\ \A i \in touched : i >= 0 /\ i < RomLen
        /\ \A base \in {LOROM_HEADER_OFFSET, HIROM_HEADER_OFFSET} :
              RomLen <= base + 48 => touched \cap (base..(base + 48)) = {}
        /\ RomLen <= LOROM_HEADER_OFFSET + 48 => result = "Unknown"

\* an image of exactly 0x7FB0 + 0x30 bytes holding a complementary pair at
\* the LoROM base was classified without a probe
C4_Witness ==
    /\ op = "mapping_mode"
    /\ RomLen = LOROM_HEADER_OFFSET + 48
    /\ BitXor(WordAt(LOROM_HEADER_OFFSET + 28), WordAt(LOROM_HEADER_OFFSET + 30)) = 65535
    /\ touched = {}
    /\ result = "Unknown"

\* the number of bytes a clamped read of length at offset yields
ClampedCount(offset, length) == Max(Min(offset + length, RomLen) - offset, 0)

\* C5: for offset >= 0 and length >= 0, read_bytes never raises and returns
\* rom_bytes[offset .. min(offset+length, len)-1] in order: the full range,
\* the truncated remainder, or nothing; never more than length bytes.
C5_ReadBytes ==
    (op = "read_bytes" /\ args[1] >= 0 /\ args[2] >= 0) =>
        LET offset == args[1]
            length == args[2]
            n      == ClampedCount(offset, length)
        IN  /\ raised = "none"
            /\ result.len = n
            /\ \A k \in 0..(n - 1) : Byte(result, k) = Byte(rom_data, offset + k)
            /\ result.len <= length
            /\ offset + length <= RomLen => result.len = length
            /\ (offset < RomLen /\ RomLen < offset + length)
                  => result.len = RomLen - offset
            /\ offset >= RomLen => result.len = 0

\* a read that runs past the end returned a non-empty truncated remainder
C5_Witness ==
    /\ op = "read_bytes"
    /\ args[1] > 0
    /\ args[1] < RomLen
    /\ RomLen < args[1] + args[2]
    /\ result.len = RomLen - args[1]

\* the entries of a diff that are byte mismatches / size mismatches
IsSizeEntry(e) == "note" \in DOMAIN e
ByteEntries(diffs) == SelectSeq(diffs, LAMBDA e : ~IsSizeEntry(e))
SizeEntries(diffs) == SelectSeq(diffs, LAMBDA e : IsSizeEntry(e))

OverlapLen == Min(RomLen, args[1].len)
Differing == {i \in 0..(OverlapLen - 1) : Byte(rom_data, i) # Byte(args[1], i)}

\* C6: the ByteMismatch entries of A.compare(B) are exactly one per index
\* below the shorter length where the bytes differ, carrying that offset and
\* both bytes; offsets strictly increase over the whole result and every
\* ByteMismatch precedes the SizeMismatch.
C6_ByteMismatches ==
    op = "compare" =>
        LET be == ByteEntries(result)
        IN  /\ Len(be) = Cardinality(Differing)
            /\ \A k \in 1..Len(be) :
                  /\ be[k].offset \in 0..(OverlapLen - 1)
                  /\ Byte(rom_data, be[k].offset) # Byte(args[1], be[k].offset)
                  /\ be[k].original = Byte(rom_data, be[k].offset)
                  /\ be[k].modified = Byte(args[1], be[k].offset)
            /\ \A k \in 1..(Len(result) - 1) : result[k].offset < result[k + 1].offset
            /\ \A k \in 1..Len(result) : IsSizeEntry(result[k]) => k = Len(result)

\* a diff with two byte mismatches whose bytes differ, then a size mismatch
C6_Witness ==
    /\ op = "compare"
    /\ Len(result) = 3
    /\ ~IsSizeEntry(result[1])
    /\ ~IsSizeEntry(result[2])
    /\ IsSizeEntry(result[3])
    /\ result[1].original # result[1].modified

RECURSIVE Numbers(_, _, _)
\* the decimal numerals of a text, in order (cur: the numeral being read,
\* -1 when none)
Numbers(s, cur, acc) ==
    IF s = <<>> THEN (IF cur >= 0 THEN Append(acc, cur) ELSE acc)
    ELSE IF Head(s) \in 48..57
    THEN Numbers(Tail(s), (IF cur >= 0 THEN 10 * cur ELSE 0) + (Head(s) - 48), acc)
    ELSE Numbers(Tail(s), -1, IF cur >= 0 THEN Append(acc, cur) ELSE acc)

\* C7: A.compare(B) has exactly one SizeMismatch when the lengths differ and
\* none when they are equal; it has offset min(len A, len B) and carries
\* (len A, len B).  A strict prefix gives exactly that entry; identical
\* images give the empty list.
C7_SizeMismatch ==
    op = "compare" =>
        LET se == SizeEntries(result)
            lenA == RomLen
            lenB == args[1].len
        IN  /\ Len(se) = (IF lenA # lenB THEN 1 ELSE 0)
            /\ \A k \in 1..Len(se) :
                  /\ se[k].offset = Min(lenA, lenB)
                  /\ Numbers(se[k].note, -1, <<>>) = <<lenA, lenB>>
            /\ (lenA # lenB /\ Differing = {})
                  => (Len(result) = 1 /\ IsSizeEntry(result[1]))
            /\ (lenA = lenB /\ Differing = {}) => result = <<>>

\* the 10-byte image compared with its 8-byte prefix
C7_Witness ==
    /\ op = "compare"
    /\ RomLen = 10
    /\ args[1].len = 8
    /\ Differing = {}
    /\ Len(result) = 1
    /\ result[1].offset = 8
    /\ Numbers(result[1].note, -1, <<>>) = <<10, 8>>

RECURSIVE SumOfPatch(_, _)
\* the sum of the patched bytes at the indices S
SumOfPatch(b, S) ==
    IF S = {} THEN 0
    ELSE LET i == CHOOSE j \in S : TRUE
         IN  b.patch[i] + SumOfPatch(b, S \ {i})

\* the sum of the bytes of b from index skip on, in closed form
TotalFrom(b, skip) ==
    LET at == {i \in DOMAIN b.patch : i >= skip /\ i < b.len}
    IN  b.fill * (Max(b.len - skip, 0) - Cardinality(at)) + SumOfPatch(b, at)

\* every byte of the image equals v
AllBytes(v) ==
    /\ \A i \in DOMAIN rom_data.patch : rom_data.patch[i] = v
    /\ rom_data.fill = v \/ Cardinality(DOMAIN rom_data.patch) = RomLen

\* C8: compute_checksum returns the sum of all bytes of rom_bytes modulo
\* 65536, over rom_bytes only (never the stripped copier header): 0 for an
\* all-zero image, N mod 65536 for N bytes each equal to 1.
C8_Checksum ==
    op = "compute_checksum" =>
        LET skip == IF data.len % 1024 = 512 THEN 512 ELSE 0
        IN  /\ raised = "none"
            /\ result = TotalFrom(data, skip) % 65536
            /\ result \in 0..65535
            /\ AllBytes(0) => result = 0
            /\ AllBytes(1) => result = RomLen % 65536

\* a headered image whose byte sum exceeds 16 bits and whose copier header
\* is not all zero was summed
C8_Witness ==
    /\ op = "compute_checksum"
    /\ has_header
    /\ TotalFrom(data, 512) > 65535
    /\ TotalFrom(data, 0) % 65536 # TotalFrom(data, 512) % 65536
    /\ result = TotalFrom(data, 512) % 65536

\* the positions of the newlines of a text
Newlines(s) == {p \in 1..Len(s) : s[p] = 10}

\* the position of the k-th newline of s; 0 for k = 0, Len(s) + 1 past the last
NewlineAt(s, k) ==
    IF k = 0 THEN 0
    ELSE IF k > Cardinality(Newlines(s)) THEN Len(s) + 1
    ELSE CHOOSE p \in Newlines(s) : Cardinality({q \in Newlines(s) : q < p}) = k - 1

\* the rows of a dump: the text split at every newline; no rows for ""
Rows(s) ==
    IF s = <<>> THEN <<>>
    ELSE [k \in 1..(Cardinality(Newlines(s)) + 1) |->
            SubSeq(s, NewlineAt(s, k - 1) + 1, NewlineAt(s, k) - 1)]

\* the value of an uppercase hex digit, -1 for any other character
HexValue(c) == IF c \in 48..57 THEN c - 48
               ELSE IF c \in 65..70 THEN c - 55 ELSE -1

RECURSIVE ParseHex(_)
\* the value of a hex numeral, negative when a character is no hex digit
ParseHex(s) ==
    IF s = <<>> THEN 0
    ELSE IF HexValue(s[Len(s)]) < 0 \/ ParseHex(SubSeq(s, 1, Len(s) - 1)) < 0 THEN -1
    ELSE 16 * ParseHex(SubSeq(s, 1, Len(s) - 1)) + HexValue(s[Len(s)])

\* row shows the m bytes of the image from index first under label first
RowShows(row, first, m) ==
    /\ Len(row) = 2 + 6 + 2 + 48 + 1 + m
    /\ row[1] = 32 /\ row[2] = 32
    /\ ParseHex(SubSeq(row, 3, 8)) = first
    /\ row[9] = 58 /\ row[10] = 32
    /\ \A j \in 0..(m - 1) :
          ParseHex(SubSeq(row, 11 + 3 * j, 12 + 3 * j)) = Byte(rom_data, first + j)
    /\ \A p \in 11..58 :
          (p >= 11 + 3 * m \/ (p - 11) % 3 = 2) => row[p] = 32
    /\ row[59] = 32
    /\ \A j \in 0..(m - 1) :
          LET b == Byte(rom_data, first + j)
          IN  row[60 + j] = (IF b >= 32 /\ b <= 126 THEN b ELSE 46)

\* C9: with n the number of bytes read_bytes(offset, length) returns,
\* hexdump has ceil(n/16) rows; row k is labelled offset + 16k, lists the
\* bytes rom_bytes[offset+16k ..] that exist as two-digit hex in a field
\* padded to 48 characters, then one ASCII character per byte: the byte
\* itself when 0x20 <= byte <= 0x7E, '.' otherwise.
C9_Hexdump ==
    (op = "hexdump" /\ args[1] >= 0 /\ args[2] >= 0) =>
        LET offset == args[1]
            n      == ClampedCount(offset, args[2])
            rows   == Rows(result)
        IN  /\ raised = "none"
            /\ Len(rows) = (n + 15) \div 16
            /\ \A k \in 0..(Len(rows) - 1) :
                  RowShows(rows[k + 1], offset + 16 * k, Min(16, n - 16 * k))

\* a dump of several rows whose last row is partial, with a printable and a
\* non-printable byte
C9_Witness ==
    /\ op = "hexdump"
    /\ ClampedCount(args[1], args[2]) > 16
    /\ ClampedCount(args[1], args[2]) % 16 # 0
    /\ Len(Rows(result)) = 2
    /\ \E p \in 60..Len(Rows(result)[1]) : Rows(result)[1][p] = 46
    /\ \E p \in 60..Len(Rows(result)[1]) : Rows(result)[1][p] = 65

\* C10: for len(rom_bytes) > 0x7FB0 + 0x30 the validity flag computed from
\* the fields of read_internal_header is true iff mapping_mode is not
\* Unknown.
C10_ValidIffKnown ==
    /\ (op = "info" /\ RomLen > LOROM_HEADER_OFFSET + 48) =>
          /\ raised = "none"
          /\ result.valid = (result.mapping_mode # "Unknown")
          /\ result.mapping_mode = ExpectedMode
    /\ (op = "read_internal_header" /\ RomLen > LOROM_HEADER_OFFSET + 48) =>
          /\ raised = "none"
          /\ (BitXor(result.checksum, result.checksum_complement) = 65535)
               = (ExpectedMode # "Unknown")

\* info on an image whose LoROM pair is one bit off and whose HiROM pair is
\* complementary reported HiROM and a valid header
C10_Witness ==
    /\ op = "info"
    /\ raised = "none"
    /\ ~TestPasses(LOROM_HEADER_OFFSET)
    /\ WordAt(LOROM_HEADER_OFFSET + 28) = 4660
    /\ result.mapping_mode = "HiROM"
    /\ result.valid

====
